---- MODULE Spec2Model ----
(***************************************************************************)
(* ModelManager (models/ModelManager.js): acquisition of the ONNX model    *)
(* (cache -> remote download -> bundled fallback), the isLoading guard,    *)
(* the self-rescheduling retry timer, and predict().                       *)
(*                                                                         *)
(* JavaScript runs one callback at a time, so every action below is the    *)
(* synchronous code between two await points / event callbacks.            *)
(* Raw scores and confidences are in thousandths (0.5 is 500).             *)
(***************************************************************************)
EXTENDS Integers, Sequences, FiniteSets, TLC

\* ---- bounds of the model ------------------------------------------------
\* concurrent callers of initialize() / retryLoadModel()
NCallers == 2
\* initialize() is a startup call (server.js line 1449): it is not called any
\* more once this many load attempts have been started
MaxInitAttempts == 2

\* ---- program constants --------------------------------------------------
maxLoadAttempts == 3
RetryDelayMs == 3000
PollIntervalMs == 100
Threshold == 500
DefaultConfidence == 800

Callers == {<<"c", i>> : i \in 1..NCallers}
\* a retry timer is identified by the attempt whose failure scheduled it
Timers == {<<"t", n>> : n \in 1..(maxLoadAttempts - 1)}
Procs == Callers \cup Timers

FileStates == {"absent", "bad", "good"}
\* raw scores an inference may return (float32, no range enforced by the code)
Scores == {-200, 0, 500, 501, 1000, 1500}

\* "redirectStreamNon200": the body of a redirected response whose status was not 200
DownloadPhases == {"request", "redirect", "stream", "redirectStream",
                   "redirectStreamNon200"}
\* status codes the redirect target may answer with
RedirectStatusCodes == {200, 302, 404}
\* "hung": the download promise can no longer settle
AttemptPhases == DownloadPhases \cup {"cacheCreate", "dlCreate", "localCreate", "hung"}

NoSession == "none"
NoRet == [kind |-> "none"]
Pending(operation) == [kind |-> operation]
NoResult == [outcome |-> "none"]
NoUpload == [stage |-> "none"]
NoRemote == [kind |-> "absent"]
\* no tensor was created
NoTensor == [threw |-> FALSE, data |-> <<>>, writes |-> <<>>, dims |-> <<>>]
NoPipeline == [stage |-> "idle", buffer |-> <<>>, tensor |-> NoTensor, trace |-> <<>>,
               result |-> NoResult]
NoBody == [kind |-> "none"]
\* input: the parsed response body the result was computed from
NoCall == [stage |-> "idle", trace |-> <<>>, direct |-> "none", proxy |-> "none",
           input |-> NoBody, result |-> NoResult]

VARIABLES
    sessionONNX,        \* this.sessionONNX: NoSession, or the artifact the session was built from
    modelLoadAttempts,  \* this.modelLoadAttempts
    isLoading,          \* this.isLoading
    cacheFile,          \* content at this.cachedModelPath
    localFile,          \* content at this.localModelPath
    pc,                 \* position of every caller / timer callback
    ret,                \* the caller's call: pending (and which), or the value it resolved to
    waitedOn,           \* attempt number in flight when the process entered waitForLoad
    linked,             \* the process's write stream still backs the cache path
    errKind,            \* error that took the process's attempt into the catch block
    orphan,             \* redirected transfer still running after its promise was rejected
    ppc,                \* position of the predict() call
    ptrace,             \* stages the predict() call has run
    presult,            \* what predict() resolved to
    clearResult,        \* what a clearCache() call resolved to, until its caller takes it
    undisturbed,        \* history: every failed attempt so far failed with a NetworkError and
                        \* initialize()/retryLoadModel() was never called with no attempts left
    upload,             \* the upload request being handled by multer and the predict handler
    verdict,            \* what validateImageFile of both managers returned for a file
    remote,             \* the HuggingFaceModelManager: isLoaded, the token, its last return value
    pipeline,           \* a predict() call followed through the pixel data: its stage, the
                        \* decoded buffer, the tensor, the stages run, the result
    hfcall,             \* a predict() call of the HuggingFaceModelManager: its stage, the
                        \* approaches started, how each ended, the result
    clearCycle          \* history: "cleared" once clearCache() succeeded on a live session,
                        \* "reloading" once initialize() then started a load attempt, "none"
                        \* again once a session is created

loadState == <<sessionONNX, modelLoadAttempts, isLoading>>
fsState == <<cacheFile, localFile>>
procState == <<pc, ret, waitedOn, linked, errKind, orphan, clearResult>>
predictState == <<ppc, ptrace, presult>>
history == <<undisturbed, clearCycle>>
clientState == <<upload, verdict, remote, pipeline, hfcall>>
vars == <<loadState, fsState, procState, predictState, history, clientState>>

\* ---- pure helpers --------------------------------------------------------

\* getModelSource(): looks at the files, not at the session
getModelSource(cache, local) ==
    IF cache # "absent" THEN "huggingface_cached"
    ELSE IF local # "absent" THEN "local"
    ELSE "none"

\* getModelStatus()
getModelStatus(sess, attempts, loading, cache, local) ==
    [kind |-> "status",
     isLoaded |-> sess # NoSession,
     loadAttempts |-> attempts,
     maxAttempts |-> maxLoadAttempts,
     isLoading |-> loading,
     modelSource |-> getModelSource(cache, local),
     cached |-> cache # "absent",
     localExists |-> local # "absent"]

\* ort.InferenceSession.create(path) succeeds on a well-formed artifact only
CreateSucceeds(content) == content = "good"

\* mutant of AlreadyLoading: the guard looks at the session instead of the flag
AlreadyLoadingBySession == sessionONNX # NoSession

\* loadModel line 42: the in-progress guard
AlreadyLoading == isLoading

\* loadModel line 54: fs.existsSync(this.cachedModelPath)
CacheHit == cacheFile # "absent"

\* mutant of ShouldScheduleRetry: the last retry is never scheduled
ShouldScheduleRetryEarlyStop(attempts) == attempts < maxLoadAttempts - 1

\* loadModel line 115: is another automatic retry scheduled?
ShouldScheduleRetry(attempts) == attempts < maxLoadAttempts

\* mutant of LocalExists: the bundled fallback is never looked at
LocalExistsNever == FALSE

\* loadModel line 97: fs.existsSync(this.localModelPath)
LocalExists == localFile # "absent"

\* mutant of RetryAllowed: off by one
RetryAllowedInclusive == modelLoadAttempts <= maxLoadAttempts

\* retryLoadModel line 511
RetryAllowed == modelLoadAttempts < maxLoadAttempts


NoOrphan == [phase |-> "none", linked |-> FALSE]

\* what a finished call leaves in pc: a caller holds its return value, a timer
\* callback is over
Returned(p) == IF p \in Callers THEN "returned" ELSE "unset"

\* the value initialize()/retryLoadModel() resolve to (lines 38, 517); a timer
\* callback's promise is dropped (line 117)
Resolve(p, st) == IF p \in Callers THEN [ret EXCEPT ![p] = st] ELSE ret

\* A transfer whose promise was rejected.  Once it streams into a file that no
\* longer backs the cache path it can neither change the path nor unlink it.
Abandoned(phase, isLinked) ==
    IF phase = "redirectStream" /\ ~isLinked THEN NoOrphan
    ELSE [phase |-> phase, linked |-> isLinked]

\* the abandoned transfer after the cache path was unlinked
Detached(o) == Abandoned(o.phase, FALSE)

\* fs.unlink / fs.unlinkSync of the cache path: every open write stream keeps
\* writing to the removed file, which no longer backs the path
Unlinked == [q \in Procs |-> FALSE]

\* ---- Init ----------------------------------------------------------------
\* constructor (lines 9-24); the two files are whatever the disk holds at boot
InitManager ==
    /\ sessionONNX = NoSession
    /\ modelLoadAttempts = 0
    /\ isLoading = FALSE
    /\ cacheFile \in FileStates
    /\ localFile \in FileStates
    /\ pc = [p \in Procs |-> IF p \in Callers THEN "idle" ELSE "unset"]
    /\ ret = [p \in Callers |-> NoRet]
    /\ waitedOn = [p \in Procs |-> 0]
    /\ linked = [p \in Procs |-> FALSE]
    /\ errKind = [p \in Procs |-> "none"]
    /\ orphan = NoOrphan
    /\ ppc = "idle"
    /\ ptrace = <<>>
    /\ presult = NoResult
    /\ undisturbed = TRUE
    /\ clearResult = NoRet
    /\ clearCycle = "none"
    /\ upload = NoUpload
    /\ verdict = NoRet
    /\ pipeline = NoPipeline
    /\ hfcall = NoCall

\* the server (server.js line 14) constructs the ModelManager only
Init ==
    /\ InitManager
    /\ remote = NoRemote

\* A resolved promise runs its awaiter's continuation as a microtask, before any
\* timer, I/O or request callback: no event is processed while a call has resolved
\* and its caller has not yet taken the value.
Resolved ==
    \/ ppc = "done"
    \/ clearResult # NoRet
    \/ \E p \in Callers : pc[p] = "returned"
Ready == ~Resolved

\* ---- loadModel -----------------------------------------------------------

\* loadModel lines 42-79: the synchronous prefix, up to the first await.
\* Sets loadState, pc, waitedOn, cacheFile, linked.
LoadModel(p) ==
    IF AlreadyLoading
    THEN /\ pc' = [pc EXCEPT ![p] = "wait"]
         /\ waitedOn' = [waitedOn EXCEPT ![p] = modelLoadAttempts]
         /\ UNCHANGED <<loadState, cacheFile, linked>>
    ELSE /\ modelLoadAttempts' = modelLoadAttempts + 1
         /\ isLoading' = TRUE
         /\ UNCHANGED <<sessionONNX, waitedOn>>
         /\ IF CacheHit
            THEN /\ pc' = [pc EXCEPT ![p] = "cacheCreate"]
                 /\ UNCHANGED <<cacheFile, linked>>
            ELSE \* downloadModel lines 125-130: createWriteStream creates the file
                 /\ pc' = [pc EXCEPT ![p] = "request"]
                 /\ cacheFile' = "bad"
                 /\ linked' = [linked EXCEPT ![p] = TRUE]

\* mutant of AttemptsAfterSuccess: a successful attempt is not counted
AttemptsAfterSuccessRefunded == modelLoadAttempts - 1

\* loadModel lines 64-72: the success path does not assign modelLoadAttempts
AttemptsAfterSuccess == modelLoadAttempts

\* mutant of SessionAfterFailure: a failed attempt drops the session
SessionAfterFailureDropped == NoSession

\* loadModel lines 93-121: the failure path does not assign sessionONNX
SessionAfterFailure == sessionONNX

\* loadModel lines 69-72, 88-91, 104-107: a session was created.
\* Sets loadState, pc, ret, errKind, undisturbed, clearCycle.
Success(p, src, newCache) ==
    /\ sessionONNX' = src
    /\ isLoading' = FALSE
    /\ modelLoadAttempts' = AttemptsAfterSuccess
    /\ pc' = [pc EXCEPT ![p] = Returned(p)]
    /\ ret' = Resolve(p, getModelStatus(src, modelLoadAttempts, FALSE, newCache, localFile))
    /\ errKind' = [errKind EXCEPT ![p] = "none"]
    /\ clearCycle' = "none"
    /\ UNCHANGED undisturbed

\* loadModel lines 113-121: the attempt failed for good.
\* Sets loadState, pc, ret, errKind, undisturbed, clearCycle.
FailTail(p, kind, newCache) ==
    LET done == [pc EXCEPT ![p] = Returned(p)] IN
    /\ isLoading' = FALSE
    /\ sessionONNX' = SessionAfterFailure
    /\ UNCHANGED modelLoadAttempts
    /\ pc' = IF ShouldScheduleRetry(modelLoadAttempts)
             THEN [done EXCEPT ![<<"t", modelLoadAttempts>>] = "pending"]
             ELSE done
    /\ ret' = Resolve(p, getModelStatus(sessionONNX, modelLoadAttempts, FALSE,
                                        newCache, localFile))
    /\ errKind' = [errKind EXCEPT ![p] = "none"]
    /\ undisturbed' = (undisturbed /\ kind = "NetworkError")
    /\ UNCHANGED clearCycle

\* loadModel lines 93-111: the catch block up to its await.
\* Sets everything FailTail sets, plus cacheFile, linked, orphan.
Catch(p, kind, newCache, newLinked, newOrphan) ==
    /\ cacheFile' = newCache
    /\ linked' = [newLinked EXCEPT ![p] = FALSE]
    /\ orphan' = newOrphan
    /\ IF LocalExists
       THEN /\ pc' = [pc EXCEPT ![p] = "localCreate"]
            /\ errKind' = [errKind EXCEPT ![p] = kind]
            /\ UNCHANGED <<loadState, ret, history>>
       ELSE FailTail(p, kind, newCache)

LoadFrame == UNCHANGED <<localFile, waitedOn, clearResult, predictState, clientState>>

\* line 64: InferenceSession.create(cachedModelPath) settles
CacheCreateDone(p) ==
    /\ Ready
    /\ pc[p] = "cacheCreate"
    /\ IF CreateSucceeds(cacheFile)
       THEN /\ Success(p, "cache", cacheFile)
            /\ UNCHANGED <<cacheFile, linked, orphan>>
       ELSE Catch(p, "CorruptArtifactError", cacheFile, linked, orphan)
    /\ LoadFrame

\* line 83: InferenceSession.create(cachedModelPath) after the download settles
DlCreateDone(p) ==
    /\ Ready
    /\ pc[p] = "dlCreate"
    /\ IF CreateSucceeds(cacheFile)
       THEN /\ Success(p, "download", cacheFile)
            /\ UNCHANGED <<cacheFile, linked, orphan>>
       ELSE Catch(p, "CorruptArtifactError", cacheFile, linked, orphan)
    /\ LoadFrame

\* line 100: InferenceSession.create(localModelPath) settles
LocalCreateDone(p) ==
    /\ Ready
    /\ pc[p] = "localCreate"
    /\ IF CreateSucceeds(localFile)
       THEN Success(p, "local", cacheFile)
       ELSE FailTail(p, errKind[p], cacheFile)
    /\ UNCHANGED <<cacheFile, linked, orphan>>
    /\ LoadFrame

\* ---- downloadModel: the events of one download ---------------------------

DownloadFrame == UNCHANGED <<loadState, ret, errKind, history>>

\* lines 131-149: status 200, the body is piped into the write stream
Response200(p) ==
    /\ Ready
    /\ pc[p] = "request"
    /\ pc' = [pc EXCEPT ![p] = "stream"]
    /\ UNCHANGED <<cacheFile, linked, orphan>>
    /\ DownloadFrame /\ LoadFrame

\* lines 151-156: status 301/302, a second request goes to the Location header
ResponseRedirect(p) ==
    /\ Ready
    /\ pc[p] = "request"
    /\ pc' = [pc EXCEPT ![p] = "redirect"]
    /\ UNCHANGED <<cacheFile, linked, orphan>>
    /\ DownloadFrame /\ LoadFrame

\* lines 182-184: any other status rejects; the file the stream created stays
ResponseOther(p) ==
    /\ Ready
    /\ pc[p] = "request"
    /\ Catch(p, "NetworkError", cacheFile, linked, orphan)
    /\ LoadFrame

\* lines 187-190: transport error before a response: unlink the file, reject
RequestError(p) ==
    /\ Ready
    /\ pc[p] = "request"
    /\ Catch(p, "NetworkError", "absent", Unlinked, Detached(orphan))
    /\ LoadFrame

\* lines 156-168: the redirected response is piped to the file; its statusCode
\* is not looked at
RedirectResponse(p, statusCode) ==
    /\ Ready
    /\ pc[p] = "redirect"
    /\ pc' = [pc EXCEPT ![p] = IF statusCode = 200 THEN "redirectStream"
                                ELSE "redirectStreamNon200"]
    /\ UNCHANGED <<cacheFile, linked, orphan>>
    /\ DownloadFrame /\ LoadFrame

\* lines 177-180: transport error of the redirected request: unlink the file, reject
RedirectError(p) ==
    /\ Ready
    /\ pc[p] = "redirect"
    /\ Catch(p, "NetworkError", "absent", Unlinked, Detached(orphan))
    /\ LoadFrame

\* lines 145-149, 170-174: the write stream finished; resolve(), then line 83
\* awaits the session.  The body is whatever the server sent; the body of an
\* error or redirect answer is not a model.
StreamFinish(p, content) ==
    /\ Ready
    /\ pc[p] \in {"stream", "redirectStream", "redirectStreamNon200"}
    /\ pc[p] = "redirectStreamNon200" => content = "bad"
    /\ cacheFile' = IF linked[p] THEN content ELSE cacheFile
    /\ linked' = [linked EXCEPT ![p] = FALSE]
    /\ pc' = [pc EXCEPT ![p] = "dlCreate"]
    /\ UNCHANGED orphan
    /\ DownloadFrame /\ LoadFrame

\* lines 192-195: the first request's socket was idle for 120 s: destroy it, reject.
\* Before a response the destroyed request emits 'error' (lines 187-190 unlink the
\* file); during a 200 body the partial file stays; after a redirect the second
\* request is not destroyed and keeps running.
Timeout(p) ==
    /\ Ready
    /\ pc[p] \in DownloadPhases
    /\ CASE pc[p] = "request" ->
              Catch(p, "NetworkError", "absent", Unlinked, Detached(orphan))
         [] pc[p] = "stream" ->
              Catch(p, "NetworkError", cacheFile, linked, orphan)
         [] OTHER ->
              Catch(p, "NetworkError", cacheFile, linked,
                    Abandoned(IF pc[p] = "redirect" THEN "redirect" ELSE "redirectStream",
                              linked[p]))
    /\ LoadFrame

\* lines 131-149: the peer closes the connection before the 200 body is complete.
\* The response emits 'aborted' and never 'end'; nothing listens to it, the
\* request emits no 'error' for a close after its response arrived, the closed
\* socket's timeout is cancelled and the write stream is never ended: neither
\* resolve nor reject is ever called.
ConnectionDrop(p) ==
    /\ Ready
    /\ pc[p] = "stream"
    /\ pc' = [pc EXCEPT ![p] = "hung"]
    /\ UNCHANGED <<cacheFile, linked, orphan>>
    /\ DownloadFrame /\ LoadFrame

OrphanFrame == UNCHANGED <<loadState, localFile, pc, ret, waitedOn, errKind,
                           clearResult, predictState, clientState, history>>

\* the abandoned redirected request gets its response (lines 156-168)
OrphanResponse ==
    /\ Ready
    /\ orphan.phase = "redirect"
    /\ orphan' = Abandoned("redirectStream", orphan.linked)
    /\ UNCHANGED <<cacheFile, linked>>
    /\ OrphanFrame

\* the abandoned redirected request fails (lines 177-180): unlinks the cache path
OrphanError ==
    /\ Ready
    /\ orphan.phase = "redirect"
    /\ orphan' = NoOrphan
    /\ cacheFile' = "absent"
    /\ linked' = Unlinked
    /\ OrphanFrame

\* the abandoned transfer finishes writing (lines 170-174); resolve() is a no-op
OrphanFinish(content) ==
    /\ Ready
    /\ orphan.phase = "redirectStream"
    /\ orphan' = NoOrphan
    /\ cacheFile' = IF orphan.linked THEN content ELSE cacheFile
    /\ UNCHANGED linked
    /\ OrphanFrame

\* ---- waitForLoad, initialize, retryLoadModel, the retry timer, clearCache --

\* waitForLoad lines 199-210: a poll that finds isLoading false resolves, and the
\* caller returns getModelStatus()
WaitForLoadWake(p) ==
    /\ Ready
    /\ pc[p] = "wait"
    /\ ~isLoading
    /\ pc' = [pc EXCEPT ![p] = Returned(p)]
    /\ ret' = Resolve(p, getModelStatus(sessionONNX, modelLoadAttempts, isLoading,
                                        cacheFile, localFile))
    /\ waitedOn' = IF p \in Callers THEN waitedOn ELSE [waitedOn EXCEPT ![p] = 0]
    /\ UNCHANGED <<loadState, fsState, linked, errKind, orphan, clearResult,
                   predictState, clientState, history>>

\* concurrent calls are interchangeable: a new call takes the lowest idle slot
FreeSlot(p) ==
    /\ p \in Callers
    /\ pc[p] = "idle"
    /\ \A q \in Callers : q[2] < p[2] => pc[q] # "idle"

\* initialize lines 26-39
Initialize(p) ==
    /\ Ready
    /\ FreeSlot(p)
    /\ modelLoadAttempts < MaxInitAttempts
    /\ undisturbed' = (undisturbed /\ RetryAllowed)
    /\ ret' = [ret EXCEPT ![p] = Pending("initialize")]
    /\ LoadModel(p)
    /\ clearCycle' = IF clearCycle = "cleared" /\ ~AlreadyLoading
                     THEN "reloading" ELSE clearCycle
    /\ UNCHANGED <<localFile, errKind, orphan, clearResult, predictState, clientState>>

\* retryLoadModel lines 510-518
RetryLoadModel(p) ==
    /\ Ready
    /\ FreeSlot(p)
    /\ undisturbed' = (undisturbed /\ RetryAllowed)
    /\ IF RetryAllowed
       THEN /\ LoadModel(p)
            /\ ret' = [ret EXCEPT ![p] = Pending("retryLoadModel")]
       ELSE /\ pc' = [pc EXCEPT ![p] = Returned(p)]
            /\ ret' = Resolve(p, getModelStatus(sessionONNX, modelLoadAttempts,
                                                isLoading, cacheFile, localFile))
            /\ UNCHANGED <<loadState, waitedOn, cacheFile, linked>>
    /\ UNCHANGED <<localFile, errKind, orphan, clearResult, predictState, clientState,
                   clearCycle>>

\* the caller's continuation (a microtask, so it runs before any other event)
\* has consumed the returned status
Continue(p) ==
    /\ p \in Callers
    /\ pc[p] = "returned"
    /\ pc' = [pc EXCEPT ![p] = "idle"]
    /\ ret' = [ret EXCEPT ![p] = NoRet]
    /\ waitedOn' = [waitedOn EXCEPT ![p] = 0]
    /\ UNCHANGED <<loadState, fsState, linked, errKind, orphan, clearResult,
                   predictState, clientState, history>>

\* A waiter polls every 100 ms and the retry is 3000 ms away, so the waiters of
\* the attempt that scheduled timer t have seen isLoading false before t fires,
\* unless another attempt started in between.
TimerDue(t) ==
    (PollIntervalMs < RetryDelayMs) =>
        ~ \E q \in Procs : /\ pc[q] = "wait"
                           /\ waitedOn[q] = t[2]
                           /\ modelLoadAttempts = t[2]
                           /\ ~isLoading

\* line 117: setTimeout(() => this.loadModel(), 3000) fires
TimerFire(t) ==
    /\ Ready
    /\ t \in Timers
    /\ pc[t] = "pending"
    /\ TimerDue(t)
    /\ LoadModel(t)
    /\ UNCHANGED <<localFile, ret, errKind, orphan, clearResult, predictState, clientState, history>>

\* the value clearCache() resolves to (lines 528, 531)
ClearCacheResult(success, message) ==
    [kind |-> "cleared", success |-> success, message |-> message]

\* mutant of ClearCache: clearing the cache also drops the session
ClearCacheDropsSession(unlinkThrows) ==
    IF unlinkThrows THEN UNCHANGED loadState
    ELSE /\ sessionONNX' = NoSession
         /\ UNCHANGED <<modelLoadAttempts, isLoading>>

\* clearCache: what it leaves of sessionONNX, modelLoadAttempts, isLoading
ClearCacheLoadState(unlinkThrows) == UNCHANGED loadState

\* clearCache lines 521-532; fs.unlinkSync may throw (EPERM, EBUSY), which the
\* catch block turns into {success: false}
ClearCache(unlinkThrows) ==
    /\ Ready
    /\ IF cacheFile = "absent"
       THEN /\ clearResult' = ClearCacheResult(TRUE, "Cache cleared")
            /\ UNCHANGED <<cacheFile, linked, orphan>>
       ELSE IF unlinkThrows
       THEN /\ clearResult' = ClearCacheResult(FALSE, "unlink failed")
            /\ UNCHANGED <<cacheFile, linked, orphan>>
       ELSE /\ clearResult' = ClearCacheResult(TRUE, "Cache cleared")
            /\ cacheFile' = "absent"
            /\ linked' = Unlinked
            /\ orphan' = Detached(orphan)
    /\ ClearCacheLoadState(unlinkThrows)
    /\ clearCycle' = IF sessionONNX # NoSession /\ clearResult'.success
                     THEN "cleared" ELSE clearCycle
    /\ UNCHANGED <<localFile, pc, ret, waitedOn, errKind, predictState, clientState,
                   undisturbed>>

\* the caller of clearCache() (server.js line 1102) has taken the result
ClearCacheReturn ==
    /\ clearResult # NoRet
    /\ clearResult' = NoRet
    /\ UNCHANGED <<loadState, fsState, pc, ret, waitedOn, linked, errKind, orphan,
                   predictState, clientState, history>>

\* ---- predict ---------------------------------------------------------------

\* lines 349-354: the cautious default
DefaultResult ==
    [outcome |-> "resolved",
     prediction |-> "Anemic",
     confidence |-> DefaultConfidence,
     usingDefaultPrediction |-> TRUE,
     modelSource |-> "none",
     error |-> "none",
     rawOutput |-> <<>>]

\* mutant of PredictCatch: the catch block rethrows
PredictCatchRethrow(message) ==
    [DefaultResult EXCEPT !.outcome = "rejected", !.error = message]

\* lines 433-442: the catch block of predict
PredictCatch(message) == [DefaultResult EXCEPT !.error = message]

\* mutant of Interpret: the low branch reports 1 - score
InterpretComplement(rawConfidence) ==
    IF rawConfidence > Threshold
    THEN [prediction |-> "Non-anemic", confidence |-> rawConfidence]
    ELSE [prediction |-> "Anemic", confidence |-> 1000 - rawConfidence]

\* lines 402-413: the decision rule on the raw score
Interpret(rawConfidence) ==
    IF rawConfidence > Threshold
    THEN [prediction |-> "Non-anemic", confidence |-> rawConfidence]
    ELSE [prediction |-> "Anemic", confidence |-> rawConfidence]

\* lines 421-431: the result of a successful inference
PredictResult(rawConfidence, source) ==
    [outcome |-> "resolved",
     prediction |-> Interpret(rawConfidence).prediction,
     confidence |-> Interpret(rawConfidence).confidence,
     usingDefaultPrediction |-> FALSE,
     modelSource |-> source,
     error |-> "none",
     rawOutput |-> <<rawConfidence>>]

\* mutant of NoModel: a load in progress counts as a model
NoModelAndIdle == sessionONNX = NoSession /\ ~isLoading

\* predict line 347: if (!this.sessionONNX)
NoModel == sessionONNX = NoSession

\* preprocessImage: decode/resize may throw, the buffer-size check (line 249) may throw
PreprocessOutcomes == {"ok", "decodeError", "sizeMismatch"}

PredictFrame == UNCHANGED <<loadState, fsState, procState, history, clientState>>

\* predict lines 342-359: entry, the session check, the start of preprocessing
PredictStart ==
    /\ Ready
    /\ ppc = "idle"
    /\ ptrace' = <<>>
    /\ IF NoModel
       THEN /\ presult' = DefaultResult
            /\ ppc' = "done"
       ELSE /\ presult' = NoResult
            /\ ppc' = "preprocess"
    /\ PredictFrame

\* predict lines 359-378: preprocessImage settles, validateModelInput runs, and
\* session.run is started
PreprocessDone(outcome, finite) ==
    /\ Ready
    /\ ppc = "preprocess"
    /\ IF outcome # "ok"
       THEN /\ ptrace' = Append(ptrace, "preprocess")
            /\ presult' = PredictCatch("PreprocessingError")
            /\ ppc' = "done"
       ELSE IF ~finite
       THEN /\ ptrace' = ptrace \o <<"preprocess", "validate">>
            /\ presult' = PredictCatch("ValidationError")
            /\ ppc' = "done"
       ELSE /\ ptrace' = ptrace \o <<"preprocess", "validate", "infer">>
            /\ presult' = NoResult
            /\ ppc' = "infer"
    /\ PredictFrame

\* predict lines 378-431: session.run resolved with a raw score
InferenceDone(rawConfidence) ==
    /\ Ready
    /\ ppc = "infer"
    /\ presult' = PredictResult(rawConfidence, getModelSource(cacheFile, localFile))
    /\ ppc' = "done"
    /\ UNCHANGED ptrace
    /\ PredictFrame

\* predict lines 378, 433-442: session.run rejected
InferenceError ==
    /\ Ready
    /\ ppc = "infer"
    /\ presult' = PredictCatch("InferenceError")
    /\ ppc' = "done"
    /\ ptrace' = Append(ptrace, "failed")
    /\ PredictFrame

\* the caller has taken the result; the next request may call predict
PredictReturn ==
    /\ ppc = "done"
    /\ ppc' = "idle"
    /\ ptrace' = <<>>
    /\ presult' = NoResult
    /\ PredictFrame

\* ---- validateImageFile and the upload handlers ---------------------------------

MaxFileSize == 10485760
MinFileSize == 1024
\* the value of a property that is not set
Undefined == -1

MimeTypes == {"image/jpeg", "image/jpg", "image/png", "image/gif", "image/webp",
              "application/pdf"}
RawExtensions == {".jpg", ".jpeg", ".png", ".PNG", ".gif", ".webp", ""}
FileSizes == {0, MinFileSize - 1, MinFileSize, MaxFileSize, MaxFileSize + 1}
Files == [kind : {"file"}, mimetype : MimeTypes, size : FileSizes,
          extname : RawExtensions]
NoFile == [kind |-> "null"]

\* String.prototype.toLowerCase on the extensions above
toLowerCase(e) == IF e = ".PNG" THEN ".png" ELSE e

\* JavaScript's > and < are false when an operand is undefined
JsGreater(a, b) == a # Undefined /\ a > b
JsLess(a, b) == a # Undefined /\ a < b

Verdict(errors) == [outcome |-> "returned", errors |-> errors]
Threw(message) == [outcome |-> "threw", errors |-> <<message>>]
Accepted(v) == v.outcome = "returned" /\ v.errors = <<>>

ErrorIf(cond, message) == IF cond THEN <<message>> ELSE <<>>

\* ModelManager.validateImageFile lines 445-476
allowedTypes == {"image/jpeg", "image/jpg", "image/png", "image/gif", "image/webp"}
allowedExtensions == {".jpg", ".jpeg", ".png", ".gif", ".webp"}
validateImageFile(file) ==
    IF file.kind = "null" THEN Verdict(<<"No file provided">>)
    ELSE Verdict(
           ErrorIf(JsGreater(file.size, MaxFileSize), "File size exceeds 10MB limit")
        \o ErrorIf(JsLess(file.size, MinFileSize), "File size too small (minimum 1KB)")
        \o ErrorIf(file.mimetype \notin allowedTypes, "Invalid file type")
        \o ErrorIf(toLowerCase(file.extname) \notin allowedExtensions,
                   "Invalid file extension"))

\* HuggingFaceModelManager.validateImageFile (part_001 lines 227-241); reading
\* file.mimetype of a missing file throws a TypeError
HFallowedTypes == {"image/jpeg", "image/jpg", "image/png", "image/webp"}
HFvalidateImageFile(file) ==
    IF file.kind = "null" THEN Threw("TypeError")
    ELSE Verdict(
           ErrorIf(file.mimetype \notin HFallowedTypes, "Invalid file type")
        \o ErrorIf(JsGreater(file.size, MaxFileSize), "File too large"))

UploadFrame == UNCHANGED <<loadState, fsState, procState, predictState, history,
                           verdict, remote, pipeline, hfcall>>

\* server.js lines 437-459: multer calls fileFilter when the file part starts,
\* before its bytes are read, so file.size is not set yet; an accepted file is
\* then streamed to disk under limits.fileSize
FileFilter(file) ==
    /\ upload = NoUpload
    /\ LET seen == [file EXCEPT !.size = Undefined]
           validationErrors == validateImageFile(seen).errors
       IN upload' =
            IF Len(validationErrors) > 0
            THEN [stage |-> "rejected", file |-> file, error |-> validationErrors[1]]
            ELSE IF file.size > MaxFileSize
            THEN [stage |-> "rejected", file |-> file, error |-> "LIMIT_FILE_SIZE"]
            ELSE [stage |-> "stored", file |-> file, error |-> "none"]
    /\ UploadFrame

\* server.js lines 733-738, 798-804: a request without a file part
NoFileUploaded ==
    /\ upload = NoUpload
    /\ upload' = [stage |-> "rejected", file |-> NoFile, error |-> "NO_FILE"]
    /\ UploadFrame

\* server.js lines 740-746, 806-812: the handler calls predict(req.file.path)
HandlerPredict ==
    /\ upload.stage = "stored"
    /\ upload' = [upload EXCEPT !.stage = "predict"]
    /\ UploadFrame

\* the response was sent
UploadDone ==
    /\ upload.stage \in {"rejected", "predict"}
    /\ upload' = NoUpload
    /\ UploadFrame

\* both managers validate one file
Validate(file) ==
    /\ verdict = NoRet
    /\ verdict' = [file |-> file, local |-> validateImageFile(file),
                   remote |-> HFvalidateImageFile(file)]
    /\ UNCHANGED <<loadState, fsState, procState, predictState, history, upload, remote,
                   pipeline, hfcall>>

\* ---- preprocessImage and validateModelInput on pixel data -----------------------

\* the side of the square sharp resizes to (224 in the code, line 232), scaled down
ImageHeight == 2
ImageWidth == 2
\* pixels per batch of the normalisation loop (1000 in the code, line 263), scaled down
batchSize == 3

\* line 262
totalPixels == ImageHeight * ImageWidth
\* line 248
expectedSize == ImageHeight * ImageWidth * 3
\* lines 258-259: ImageNet mean and std, in thousandths
mean == <<485, 456, 406>>
std == <<229, 224, 225>>
\* the value Number.isFinite rejects; normalised bytes lie in -2118 .. 2640
NaN == 999999999

\* the raw buffers sharp may hand back: a ramp of bytes (every position differs
\* from its neighbours unless step is 0), of the expected size, one byte short
\* (3 channels did not multiply out) or one byte long
Ramp(offset, step, n) == [k \in 1..n |-> (offset + step * (k - 1)) % 256]
Buffers ==
    {Ramp(offset, step, n) : offset \in {0, 100, 250}, step \in {0, 1, 7},
                             n \in (expectedSize - 1)..(expectedSize + 1)}

\* buffer[k] of a Node Buffer, k from 0: undefined past the end
BufferAt(buffer, k) == IF k < Len(buffer) THEN buffer[k + 1] ELSE Undefined

\* lines 275-277: (pixel / 255 - mean) / std, in thousandths; undefined / 255 is NaN
Normalize(raw, c) ==
    IF raw = Undefined THEN NaN
    ELSE ((raw * 1000000) \div 255 - mean[c + 1] * 1000) \div std[c + 1]

\* mutant of ChannelSlot: the output keeps the interleaved order
ChannelSlotInterleaved(i, c) == 3 * i + c

\* lines 283-285: the slot of pixel i, channel c in float32Data, from 0
ChannelSlot(i, c) == i + c * totalPixels

\* mutant of BufferSizeMatches: a longer buffer is truncated
BufferSizeAtLeast(buffer) == Len(buffer) >= expectedSize

\* line 249: buffer.length !== expectedSize throws
BufferSizeMatches(buffer) == Len(buffer) = expectedSize

\* line 255: new Float32Array(3 * 224 * 224), zero-filled; writes counts the
\* assignments to every slot
NewFloat32Data ==
    [data |-> [k \in 1..(3 * ImageHeight * ImageWidth) |-> 0],
     writes |-> [k \in 1..(3 * ImageHeight * ImageWidth) |-> 0]]

\* lines 270-286: the body of the inner loop for pixel i
StorePixel(buffer, f, i) ==
    LET Put(g, c) ==
            [data |-> [g.data EXCEPT ![ChannelSlot(i, c) + 1] =
                                        Normalize(BufferAt(buffer, i * 3 + c), c)],
             writes |-> [g.writes EXCEPT ![ChannelSlot(i, c) + 1] = @ + 1]]
    IN Put(Put(Put(f, 0), 1), 2)

\* lines 269-287: for (let i = startIdx; i < endIdx; i++)
RECURSIVE InnerLoop(_, _, _, _)
InnerLoop(buffer, f, i, endIdx) ==
    IF i < endIdx THEN InnerLoop(buffer, StorePixel(buffer, f, i), i + 1, endIdx) ELSE f

Min(a, b) == IF a < b THEN a ELSE b
\* Math.ceil(totalPixels / batchSize)
Batches == (totalPixels + batchSize - 1) \div batchSize

\* lines 265-288: for (let batch = 0; batch < Math.ceil(totalPixels / batchSize); batch++)
RECURSIVE BatchLoop(_, _, _)
BatchLoop(buffer, f, batch) ==
    IF batch < Batches
    THEN BatchLoop(buffer,
                   InnerLoop(buffer, f, batch * batchSize,
                             Min(batch * batchSize + batchSize, totalPixels)),
                   batch + 1)
    ELSE f

\* lines 247-316 of preprocessImage, from the resolved buffer on: the size check,
\* the loop, the tensor
preprocessImage(buffer) ==
    IF ~BufferSizeMatches(buffer)
    THEN [NoTensor EXCEPT !.threw = TRUE]
    ELSE LET f == BatchLoop(buffer, NewFloat32Data, 0)
         IN [threw |-> FALSE, data |-> f.data, writes |-> f.writes,
             dims |-> <<1, 3, ImageHeight, ImageWidth>>]

\* lines 329-330: arr.some(v => !Number.isFinite(v) || Number.isNaN(v))
hasInvalid(data) == \E k \in 1..Len(data) : data[k] = NaN

PipelineFrame == UNCHANGED <<loadState, fsState, procState, predictState, history,
                             upload, verdict, remote, hfcall>>

\* predict lines 342-359 and preprocessImage lines 220-224: the session check, then
\* sharp(imagePath).metadata() is started
PipelineStart ==
    /\ pipeline.stage = "idle"
    /\ IF NoModel
       THEN pipeline' = [NoPipeline EXCEPT !.stage = "done", !.result = DefaultResult]
       ELSE pipeline' = [NoPipeline EXCEPT !.stage = "metadata"]
    /\ PipelineFrame

\* preprocessImage lines 224-236: metadata() resolved, the resize is started
MetadataDone ==
    /\ pipeline.stage = "metadata"
    /\ pipeline' = [pipeline EXCEPT !.stage = "toBuffer"]
    /\ PipelineFrame

\* lines 224 / 232-236, 318-321, 433-442: sharp rejected (unreadable image);
\* preprocessImage rethrows and predict's catch block answers
SharpError ==
    /\ pipeline.stage \in {"metadata", "toBuffer"}
    /\ pipeline' = [NoPipeline EXCEPT !.stage = "done", !.trace = <<"preprocess">>,
                                       !.result = PredictCatch("PreprocessingError")]
    /\ PipelineFrame

\* lines 236-316 and predict lines 359-378: toBuffer() resolved; the size check,
\* the normalisation loop and the tensor; then validateModelInput; then
\* session.run is started
ToBufferDone(buffer) ==
    /\ pipeline.stage = "toBuffer"
    /\ LET t == preprocessImage(buffer) IN
       IF t.threw
       THEN pipeline' = [stage |-> "done", buffer |-> buffer, tensor |-> NoTensor,
                         trace |-> <<"preprocess">>,
                         result |-> PredictCatch("PreprocessingError")]
       ELSE IF hasInvalid(t.data)
       THEN pipeline' = [stage |-> "done", buffer |-> buffer, tensor |-> t,
                         trace |-> <<"preprocess", "validate">>,
                         result |-> PredictCatch("ValidationError")]
       ELSE pipeline' = [stage |-> "infer", buffer |-> buffer, tensor |-> t,
                         trace |-> <<"preprocess", "validate", "infer">>,
                         result |-> NoResult]
    /\ PipelineFrame

\* predict lines 378-431: session.run resolved with a raw score
PipelineInferenceDone(rawConfidence) ==
    /\ pipeline.stage = "infer"
    /\ pipeline' = [pipeline EXCEPT
                      !.stage = "done",
                      !.result = PredictResult(rawConfidence,
                                               getModelSource(cacheFile, localFile))]
    /\ PipelineFrame

\* predict lines 378, 433-442: session.run rejected
PipelineInferenceError ==
    /\ pipeline.stage = "infer"
    /\ pipeline' = [pipeline EXCEPT !.stage = "done",
                                    !.trace = Append(@, "failed"),
                                    !.result = PredictCatch("InferenceError")]
    /\ PipelineFrame

\* the caller has taken the result; the next request may call predict
PipelineReturn ==
    /\ pipeline.stage = "done"
    /\ pipeline' = NoPipeline
    /\ PipelineFrame

\* ---- HuggingFaceModelManager (part_001) -------------------------------------------

\* constructor lines 4-9
HFconstructor(hasToken) ==
    [kind |-> "remote", isLoaded |-> hasToken, hasToken |-> hasToken, ret |-> NoRet]

BoolValue(b) == [kind |-> "boolean", value |-> b]

\* outcomes of the repository probe of initialize (lines 25-50)
ProbeOutcomes == {"ok", "notOk", "threw"}

\* initialize lines 11-51: the value it resolves to
HFinitialize(hasToken, probe) == hasToken /\ probe = "ok"

\* getModelStatus lines 216-225: the value
HFgetModelStatus(r) ==
    [kind |-> "status", isLoaded |-> r.isLoaded, modelSource |-> "huggingface_raw",
     hasToken |-> r.hasToken, approach |-> "multi_strategy"]

RemoteFrame == UNCHANGED <<loadState, fsState, procState, predictState, history,
                           upload, verdict, pipeline, hfcall>>

\* the manager after an operation returned value
HFReturn(operation, value, loaded) ==
    [remote EXCEPT !.isLoaded = loaded, !.ret = [op |-> operation, value |-> value]]

\* initialize lines 11-51
HFInitialize(probe) ==
    /\ remote # NoRemote
    /\ LET ok == HFinitialize(remote.hasToken, probe)
       IN remote' = HFReturn("initialize", BoolValue(ok), ok)
    /\ RemoteFrame

\* retryLoadModel lines 243-245
HFRetryLoadModel(probe) ==
    /\ remote # NoRemote
    /\ LET ok == HFinitialize(remote.hasToken, probe)
       IN remote' = HFReturn("retryLoadModel", BoolValue(ok), ok)
    /\ RemoteFrame

\* getModelStatus lines 216-225
HFGetModelStatus ==
    /\ remote # NoRemote
    /\ remote' = HFReturn("getModelStatus", HFgetModelStatus(remote), remote.isLoaded)
    /\ RemoteFrame

\* clearCache lines 247-249
HFClearCache ==
    /\ remote # NoRemote
    /\ remote' = HFReturn("clearCache",
                          ClearCacheResult(TRUE, "No cache to clear for API-based model"),
                          remote.isLoaded)
    /\ RemoteFrame

\* ---- HuggingFaceModelManager.predict ----------------------------------------
\* Scores, confidences and random numbers of this section are in millionths.

\* label texts, one character per element
LabelAnemic == <<"A", "n", "e", "m", "i", "c">>
LabelNonAnemic == <<"N", "o", "n", "-", "a", "n", "e", "m", "i", "c">>
LabelNonAnemicSnake == <<"n", "o", "n", "_", "a", "n", "e", "m", "i", "c">>
LabelAnemia == <<"A", "N", "E", "M", "I", "A">>
LabelPositive == <<"P", "o", "s", "i", "t", "i", "v", "e">>
LabelSick == <<"s", "i", "c", "k">>
LabelHealthy == <<"h", "e", "a", "l", "t", "h", "y">>
LabelNegative == <<"n", "e", "g", "a", "t", "i", "v", "e">>
LabelPale == <<"P", "a", "l", "e">>
LabelRed == <<"r", "e", "d">>
LabelLabCoat == <<"l", "a", "b", " ", "c", "o", "a", "t">>

\* String.prototype.toLowerCase, on the characters the labels use
LowerChar(ch) ==
    CASE ch = "A" -> "a" [] ch = "N" -> "n" [] ch = "E" -> "e" [] ch = "M" -> "m"
      [] ch = "I" -> "i" [] ch = "P" -> "p" [] OTHER -> ch
labelToLowerCase(label) == [k \in 1..Len(label) |-> LowerChar(label[k])]

\* String.prototype.includes
includes(text, sub) ==
    \E k \in 1..(Len(text) - Len(sub) + 1) : SubSeq(text, k, k + Len(sub) - 1) = sub

\* a label/score item; a missing score is Undefined, the empty label is <<>>
Item(label, score) == [label |-> label, score |-> score]

\* an item that carries no label field
NoLabel == <<"undefined">>

\* JavaScript truthiness of a number-or-undefined and of a string-or-undefined
TruthyNumber(x) == x # Undefined /\ x # 0 /\ x # NaN
TruthyString(t) == t # <<>> /\ t # NoLabel

\* Math.round(x * 100) / 100
RoundHundredths(x) == IF x = NaN THEN NaN ELSE ((x + 5000) \div 10000) * 10000

\* the result object predict resolves to
HFResult(prediction, confidence, modelSource, default, error) ==
    [outcome |-> "resolved", threw |-> FALSE, prediction |-> prediction,
     confidence |-> confidence, modelSource |-> modelSource,
     usingDefaultPrediction |-> default, error |-> error]
HFThrew == [threw |-> TRUE]

\* mutant of IndicatesAnemia: the label is compared with the class name
IndicatesAnemiaExact(label) == label = <<"a", "n", "e", "m", "i", "c">>

\* lines 163-165: does the lower-cased label indicate anemia?
IndicatesAnemia(label) ==
    \/ includes(label, <<"a", "n", "e", "m", "i", "c">>)
    \/ includes(label, <<"a", "n", "e", "m", "i", "a">>)
    \/ includes(label, <<"p", "o", "s", "i", "t", "i", "v", "e">>)
    \/ includes(label, <<"s", "i", "c", "k">>)

\* lines 154-183.  A body is the parsed JSON: an array of items, an object with
\* prediction and confidence fields ("" and Undefined when absent), or null.
processInferenceResult(result) ==
    IF result.kind = "null" THEN HFThrew
    ELSE LET usesTop == /\ result.kind = "array"
                        /\ Len(result.items) > 0
                        /\ TruthyString(result.items[1].label)
                        /\ TruthyNumber(result.items[1].score)
             usesOwn == /\ result.kind = "object"
                        /\ result.prediction # ""
                        /\ TruthyNumber(result.confidence)
             prediction ==
                 IF usesTop
                 THEN IF IndicatesAnemia(labelToLowerCase(result.items[1].label))
                      THEN "Anemic" ELSE "Non-anemic"
                 ELSE IF usesOwn THEN result.prediction
                 ELSE "Non-anemic"
             confidence ==
                 IF usesTop THEN result.items[1].score
                 ELSE IF usesOwn THEN result.confidence
                 ELSE 800000
         IN HFResult(prediction, RoundHundredths(confidence), "huggingface_inference",
                     FALSE, "none")

\* lines 195-202: what one item adds to anemiaScore
ProxyWeight(item) ==
    LET label == labelToLowerCase(item.label) IN
    IF \/ includes(label, <<"p", "a", "l", "e">>) \/ includes(label, <<"w", "h", "i", "t", "e">>)
       \/ includes(label, <<"l", "i", "g", "h", "t">>) \/ includes(label, <<"w", "e", "a", "k">>)
    THEN IF item.score = Undefined THEN NaN ELSE (item.score * 3) \div 10
    ELSE IF \/ includes(label, <<"r", "e", "d">>) \/ includes(label, <<"p", "i", "n", "k">>)
            \/ includes(label, <<"h", "e", "a", "l", "t", "h", "y">>)
            \/ includes(label, <<"n", "o", "r", "m", "a", "l">>)
    THEN IF item.score = Undefined THEN NaN ELSE 0 - (item.score * 2) \div 10
    ELSE 0

\* lines 189-203: proxyResult.forEach(...), from the neutral 0.5
RECURSIVE anemiaScore(_, _, _)
anemiaScore(items, k, acc) ==
    IF k > Len(items) THEN acc
    ELSE anemiaScore(items, k + 1,
                     IF acc = NaN \/ ProxyWeight(items[k]) = NaN THEN NaN
                     ELSE acc + ProxyWeight(items[k]))

Abs(x) == IF x < 0 THEN 0 - x ELSE x
\* Math.max(0.6, Math.min(0.9, c)): NaN goes through both
Clamp(c) == IF c = NaN THEN NaN ELSE IF c > 900000 THEN 900000 ELSE IF c < 600000 THEN 600000 ELSE c

\* lines 185-214.  An item without a label makes item.label.toLowerCase() throw.
analyzeProxyResult(proxyResult) ==
    IF proxyResult.kind = "array" /\ \E k \in 1..Len(proxyResult.items) :
                                        proxyResult.items[k].label = NoLabel
    THEN HFThrew
    ELSE LET score == IF proxyResult.kind = "array"
                      THEN anemiaScore(proxyResult.items, 1, 500000) ELSE 500000
         IN HFResult(IF score # NaN /\ score > 550000 THEN "Anemic" ELSE "Non-anemic",
                     Clamp(IF score = NaN THEN NaN ELSE Abs(score - 500000) * 2),
                     "proxy_analysis", FALSE, "none")

\* lines 58-67: the default when the model is not available
IntelligentFallback(random1, random2) ==
    HFResult(IF random1 > 300000 THEN "Non-anemic" ELSE "Anemic",
             RoundHundredths(750000 + (random2 * 15) \div 100),
             "intelligent_fallback", TRUE, "none")

\* lines 138-150: the catch block of predict
ErrorFallback(random1, random2, message) ==
    HFResult(IF random1 > 350000 THEN "Non-anemic" ELSE "Anemic",
             RoundHundredths(700000 + (random2 * 15) \div 100),
             "error_fallback", TRUE, message)

\* Math.random() values
Randoms == {0, 300000, 300001, 350000, 350001, 999999}

\* parsed bodies of the hosted endpoint
DirectLabels == {LabelAnemic, LabelNonAnemic, LabelNonAnemicSnake, LabelAnemia, LabelPositive,
                 LabelSick, LabelHealthy, LabelNegative, <<>>}
DirectScores == {0, 4000, 500000, 994000, 996000, 1000000, 1700000}
DirectBodies ==
    {[kind |-> "array", items |-> <<Item(l, sc)>>] : l \in DirectLabels, sc \in DirectScores}
    \cup {[kind |-> "array", items |-> <<>>], [kind |-> "null"], [kind |-> "invalid"]}
    \cup {[kind |-> "object", prediction |-> pr, confidence |-> c] :
            pr \in {"", "Anemic", "Unknown"}, c \in {Undefined, 870000, 5000000}}

\* parsed bodies of the proxy classifier
ProxyItems ==
    {Item(l, sc) : l \in {LabelPale, LabelRed, LabelHealthy, LabelLabCoat},
                   sc \in {100000, 500000, 1000000}}
    \cup {Item(LabelPale, Undefined), Item(NoLabel, 500000)}
ProxyBodies ==
    {[kind |-> "array", items |-> <<>>], [kind |-> "object"], [kind |-> "invalid"]}
    \cup {[kind |-> "array", items |-> <<a>>] : a \in ProxyItems}
    \cup {[kind |-> "array", items |-> <<a, b>>] : a, b \in ProxyItems}

\* how a fetch ends: it rejects (also: fs.readFile rejects), or a response arrives
StatusCodes == {200, 404, 503}
Outcomes(bodies) ==
    {[kind |-> "threw", status |-> 0, body |-> NoBody]}
    \cup {[kind |-> "response", status |-> st, body |-> NoBody] : st \in StatusCodes \ {200}}
    \cup {[kind |-> "response", status |-> 200, body |-> b] : b \in bodies}

\* Response.ok
ResponseOk(status) == status >= 200 /\ status <= 299

\* mutant of Available: the token alone decides
AvailableByToken == remote.hasToken

\* predict line 54: !(!this.isLoaded || !HF_API_TOKEN)
Available == remote.isLoaded /\ remote.hasToken

HFPredictFrame == UNCHANGED <<loadState, fsState, procState, predictState, history,
                              upload, verdict, remote, pipeline>>

\* predict lines 53-90: the availability check, then the direct approach is started
HFPredictStart(random1, random2) ==
    /\ remote # NoRemote
    /\ hfcall.stage = "idle"
    /\ IF Available
       THEN hfcall' = [NoCall EXCEPT !.stage = "direct", !.trace = <<"direct">>]
       ELSE hfcall' = [NoCall EXCEPT !.stage = "done",
                                     !.result = IntelligentFallback(random1, random2)]
    /\ HFPredictFrame

\* how the direct approach ended (lines 76-104): "usable" with a result, else why not
DirectEnd(outcome) ==
    IF outcome.kind = "threw" THEN "threw"
    ELSE IF ~ResponseOk(outcome.status)
    THEN IF outcome.status = 503 THEN "warmingUp" ELSE "notOk"
    ELSE IF outcome.body.kind = "invalid" THEN "threw"
    ELSE IF processInferenceResult(outcome.body).threw THEN "threw"
    ELSE "usable"

\* predict lines 76-125: the direct approach settled; its result is returned, or
\* the proxy approach is started
DirectSettled(outcome) ==
    /\ hfcall.stage = "direct"
    /\ IF DirectEnd(outcome) = "usable"
       THEN hfcall' = [hfcall EXCEPT !.stage = "done", !.direct = "usable",
                                     !.input = outcome.body,
                                     !.result = processInferenceResult(outcome.body)]
       ELSE hfcall' = [hfcall EXCEPT !.stage = "proxy", !.direct = DirectEnd(outcome),
                                     !.trace = Append(@, "proxy")]
    /\ HFPredictFrame

\* how the proxy approach ended (lines 109-136)
ProxyEnd(outcome) ==
    IF outcome.kind = "threw" THEN "threw"
    ELSE IF ~ResponseOk(outcome.status) THEN "notOk"
    ELSE IF outcome.body.kind = "invalid" THEN "threw"
    ELSE IF analyzeProxyResult(outcome.body).threw THEN "threw"
    ELSE "usable"

\* the proxy bodies that make json() reject or analyzeProxyResult throw
ProxyFailingBodies ==
    {b \in ProxyBodies : b.kind = "invalid" \/ analyzeProxyResult(b).threw}

\* predict lines 109-132: the proxy approach settled and its analysis is returned
ProxyAnalysed(outcome) ==
    /\ hfcall.stage = "proxy"
    /\ ProxyEnd(outcome) = "usable"
    /\ hfcall' = [hfcall EXCEPT !.stage = "done", !.proxy = "usable",
                                !.input = outcome.body,
                                !.result = analyzeProxyResult(outcome.body)]
    /\ HFPredictFrame

\* predict lines 109-150: the proxy approach failed and the catch block answers
ProxyFailed(outcome, random1, random2) ==
    /\ hfcall.stage = "proxy"
    /\ ProxyEnd(outcome) # "usable"
    /\ hfcall' = [hfcall EXCEPT
                    !.stage = "done", !.proxy = ProxyEnd(outcome),
                    !.result = ErrorFallback(random1, random2,
                                  IF ProxyEnd(outcome) = "notOk"
                                  THEN "All approaches failed" ELSE "thrown")]
    /\ HFPredictFrame

\* the caller has taken the result
HFPredictReturn ==
    /\ hfcall.stage = "done"
    /\ hfcall' = NoCall
    /\ HFPredictFrame

\* ---- the specification ----------------------------------------------------

\* the events of the load path, with the clients in C calling
LoadEvent(C) ==
    \/ \E p \in C : Initialize(p)
    \/ \E p \in C : RetryLoadModel(p)
    \/ \E t \in Timers : TimerFire(t)
    \/ \E p \in Procs : WaitForLoadWake(p)
    \/ \E p \in Procs : CacheCreateDone(p)
    \/ \E p \in Procs : Response200(p)
    \/ \E p \in Procs : ResponseRedirect(p)
    \/ \E p \in Procs : ResponseOther(p)
    \/ \E p \in Procs : RequestError(p)
    \/ \E p \in Procs : \E statusCode \in RedirectStatusCodes : RedirectResponse(p, statusCode)
    \/ \E p \in Procs : RedirectError(p)
    \/ \E p \in Procs : \E content \in {"bad", "good"} : StreamFinish(p, content)
    \/ \E p \in Procs : Timeout(p)
    \/ \E p \in Procs : ConnectionDrop(p)
    \/ \E p \in Procs : DlCreateDone(p)
    \/ \E p \in Procs : LocalCreateDone(p)
    \/ OrphanResponse
    \/ OrphanError
    \/ \E content \in {"bad", "good"} : OrphanFinish(content)
    \/ \E unlinkThrows \in BOOLEAN : ClearCache(unlinkThrows)

PredictEvent ==
    \/ PredictStart
    \/ \E outcome \in PreprocessOutcomes : \E finite \in BOOLEAN : PreprocessDone(outcome, finite)
    \/ \E s \in Scores : InferenceDone(s)
    \/ InferenceError

\* the acquisition manager under concurrent initialize()/retryLoadModel() calls
Next ==
    \/ \E p \in Callers : Continue(p)
    \/ ClearCacheReturn
    \/ LoadEvent(Callers)

Spec == Init /\ [][Next]_vars

\* predict() running against the acquisition manager driven by one client
NextPredict ==
    \/ \E p \in Callers : Continue(p)
    \/ ClearCacheReturn
    \/ PredictReturn
    \/ LoadEvent({<<"c", 1>>})
    \/ PredictEvent

PredictSpec == Init /\ [][NextPredict]_vars

\* the events of process p that are due without any client acting: its timer,
\* its poll, and one of the outcomes of its pending I/O operation
ProcStep(p) ==
    \/ TimerFire(p)
    \/ WaitForLoadWake(p)
    \/ CacheCreateDone(p)
    \/ Response200(p)
    \/ ResponseRedirect(p)
    \/ ResponseOther(p)
    \/ RequestError(p)
    \/ \E statusCode \in RedirectStatusCodes : RedirectResponse(p, statusCode)
    \/ RedirectError(p)
    \/ \E content \in {"bad", "good"} : StreamFinish(p, content)
    \/ Timeout(p)
    \/ ConnectionDrop(p)
    \/ DlCreateDone(p)
    \/ LocalCreateDone(p)

\* the continuations of resolved calls
Microtask ==
    \/ \E p \in Callers : Continue(p)
    \/ ClearCacheReturn

\* The event loop runs a due continuation next, and it gets to every due
\* callback however many requests keep arriving.
Fairness ==
    /\ WF_vars(Microtask)
    /\ \A p \in Procs : SF_vars(ProcStep(p))

\* the acquisition manager driven by one client, every due event eventually handled
NextLive ==
    \/ \E p \in Callers : Continue(p)
    \/ ClearCacheReturn
    \/ LoadEvent({<<"c", 1>>})

LiveSpec == Init /\ [][NextLive]_vars /\ Fairness

\* the upload endpoints
NextUpload ==
    \/ \E file \in Files : FileFilter(file)
    \/ NoFileUploaded
    \/ HandlerPredict
    \/ UploadDone

UploadSpec == Init /\ [][NextUpload]_vars

\* a deployment that constructs the HuggingFaceModelManager, with or without a token
InitRemote ==
    /\ InitManager
    /\ \E hasToken \in BOOLEAN : remote = HFconstructor(hasToken)

NextRemote ==
    \/ \E probe \in ProbeOutcomes : HFInitialize(probe)
    \/ \E probe \in ProbeOutcomes : HFRetryLoadModel(probe)
    \/ HFGetModelStatus
    \/ HFClearCache
    \/ \E file \in Files \cup {NoFile} : Validate(file)

RemoteSpec == InitRemote /\ [][NextRemote]_vars

\* predict() of the HuggingFaceModelManager, between calls of initialize()
NextHFPredict ==
    \/ \E probe \in ProbeOutcomes : HFInitialize(probe)
    \/ \E random1, random2 \in Randoms : HFPredictStart(random1, random2)
    \/ \E outcome \in Outcomes(DirectBodies) : DirectSettled(outcome)
    \/ \E outcome \in Outcomes(ProxyBodies) : ProxyAnalysed(outcome)
    \/ \E outcome \in Outcomes(ProxyFailingBodies) : \E random1, random2 \in Randoms :
          ProxyFailed(outcome, random1, random2)
    \/ HFPredictReturn

HFPredictSpec == InitRemote /\ [][NextHFPredict]_vars

\* predict() on the server as constructed, or once the startup initialize() has
\* built the session from the cached download
InitPipeline ==
    /\ \/ sessionONNX = NoSession /\ modelLoadAttempts = 0 /\ cacheFile \in FileStates
       \/ sessionONNX = "cache" /\ modelLoadAttempts = 1 /\ cacheFile = "good"
    /\ isLoading = FALSE
    /\ localFile \in FileStates
    /\ pc = [p \in Procs |-> IF p \in Callers THEN "idle" ELSE "unset"]
    /\ ret = [p \in Callers |-> NoRet]
    /\ waitedOn = [p \in Procs |-> 0]
    /\ linked = [p \in Procs |-> FALSE]
    /\ errKind = [p \in Procs |-> "none"]
    /\ orphan = NoOrphan
    /\ ppc = "idle"
    /\ ptrace = <<>>
    /\ presult = NoResult
    /\ undisturbed = TRUE
    /\ clearResult = NoRet
    /\ clearCycle = "none"
    /\ upload = NoUpload
    /\ verdict = NoRet
    /\ pipeline = NoPipeline
    /\ hfcall = NoCall
    /\ remote = NoRemote

NextPipeline ==
    \/ PipelineStart
    \/ MetadataDone
    \/ SharpError
    \/ \E buffer \in Buffers : ToBufferDone(buffer)
    \/ \E s \in Scores : PipelineInferenceDone(s)
    \/ PipelineInferenceError
    \/ PipelineReturn

PipelineSpec == InitPipeline /\ [][NextPipeline]_vars

\* ---- type invariant --------------------------------------------------------
TypeOK ==
    /\ modelLoadAttempts \in Nat
    /\ isLoading \in BOOLEAN
    /\ cacheFile \in FileStates
    /\ localFile \in FileStates
    /\ \A p \in Callers : pc[p] \in AttemptPhases \cup {"idle", "wait", "returned"}
    /\ \A t \in Timers : pc[t] \in AttemptPhases \cup {"unset", "pending", "wait"}
    /\ ppc \in {"idle", "preprocess", "infer", "done"}

\* ---- properties of predict -------------------------------------------------

\* the traces of a predict() call that ended in its catch block
FailedTraces ==
    {<<"preprocess">>, <<"preprocess", "validate">>,
     <<"preprocess", "validate", "infer", "failed">>}

\* C1: predict never rejects; when a stage fails while a session is loaded it
\* resolves to {Anemic, 0.8, usingDefaultPrediction, modelSource none} with the
\* error message, and no step of predict changes sessionONNX, isLoading or
\* modelLoadAttempts.
C1_PredictAbsorbsErrors ==
    /\ [](ppc = "done" => presult.outcome = "resolved")
    /\ []((ppc = "done" /\ ptrace \in FailedTraces) =>
            /\ presult.prediction = "Anemic"
            /\ presult.confidence = 800
            /\ presult.usingDefaultPrediction
            /\ presult.modelSource = "none"
            /\ presult.error \in {"PreprocessingError", "ValidationError", "InferenceError"})
    /\ [][<<ppc, ptrace, presult>>' # <<ppc, ptrace, presult>> => UNCHANGED loadState]_vars

C1_Witness ==
    /\ ppc = "done"
    /\ sessionONNX # NoSession
    /\ ptrace = <<"preprocess", "validate", "infer", "failed">>
    /\ presult.error = "InferenceError"

\* C2: whatever the state of the manager and whatever raw score the model
\* returns, the result of predict has prediction in {Anemic, Non-anemic} and
\* confidence within [0, 1] (0..1000 thousandths).
C2_ResultInRange ==
    ppc = "done" =>
        /\ presult.prediction \in {"Anemic", "Non-anemic"}
        /\ presult.confidence >= 0
        /\ presult.confidence <= 1000

\* C3: a predict() call that finds no session resolves at once to exactly
\* {Anemic, 0.8, usingDefaultPrediction true, modelSource none}, with no error
\* field, without running preprocessing or inference.
C3_NoSessionDefault ==
    [][(ppc = "idle" /\ ppc' # "idle" /\ sessionONNX = NoSession) =>
          /\ ppc' = "done"
          /\ ptrace' = <<>>
          /\ presult' = [outcome |-> "resolved", prediction |-> "Anemic",
                         confidence |-> 800, usingDefaultPrediction |-> TRUE,
                         modelSource |-> "none", error |-> "none", rawOutput |-> <<>>]]_vars

\* every attempt has failed and predict answered with the default
C3_Witness ==
    /\ ppc = "done"
    /\ ptrace = <<>>
    /\ sessionONNX = NoSession
    /\ ~isLoading
    /\ modelLoadAttempts >= maxLoadAttempts
    /\ presult.usingDefaultPrediction

\* C4: after a successful inference with raw score s the prediction is
\* Non-anemic if s > 0.5 and Anemic otherwise, and the confidence is s itself.
C4_DecisionRule ==
    (ppc = "done" /\ ~presult.usingDefaultPrediction) =>
        LET s == presult.rawOutput[1] IN
        /\ presult.confidence = s
        /\ presult.prediction = (IF s > 500 THEN "Non-anemic" ELSE "Anemic")

\* a raw score of exactly 0.5 was classified
C4_Witness ==
    /\ ppc = "done"
    /\ ~presult.usingDefaultPrediction
    /\ presult.rawOutput = <<500>>
    /\ presult.prediction = "Anemic"

\* ---- properties of the load path --------------------------------------------

InAttempt == {p \in Procs : pc[p] \in AttemptPhases}
Downloading == {p \in Procs : pc[p] \in DownloadPhases}

\* C5: at most one load attempt (hence at most one download) is in progress, it
\* is in progress exactly while isLoading is set, and a process that enters
\* loadModel while isLoading is set becomes a waiter: it does not increment
\* modelLoadAttempts and opens no write stream on the cache path.
C5_SingleFlight ==
    /\ [](Cardinality(InAttempt) <= 1)
    /\ [](isLoading <=> InAttempt # {})
    /\ [][\A p \in Procs :
            (isLoading /\ pc[p] \in {"idle", "pending"}
                       /\ pc'[p] \in AttemptPhases \cup {"wait"}) =>
               /\ pc'[p] = "wait"
               /\ modelLoadAttempts' = modelLoadAttempts
               /\ linked' = linked
               /\ cacheFile' = cacheFile
               /\ Downloading' = Downloading]_vars

\* a second initialize()/retryLoadModel() waits while the first one downloads
C5_Witness ==
    /\ pc[<<"c", 1>>] \in DownloadPhases
    /\ pc[<<"c", 2>>] = "wait"
    /\ ret[<<"c", 1>>] = Pending("initialize")
    /\ ret[<<"c", 2>>] = Pending("initialize")

\* C6: a caller that waited on attempt n returns the load state that attempt n
\* produced: loadAttempts = n and isLoading = false.
C6_WaiterSeesAwaitedAttempt ==
    \A p \in Callers :
        (pc[p] = "returned" /\ waitedOn[p] > 0) =>
            /\ ret[p].loadAttempts = waitedOn[p]
            /\ ~ret[p].isLoading

\* every attempt so far failed with a NetworkError, none is left and none runs
AtCeiling ==
    /\ sessionONNX = NoSession
    /\ ~isLoading
    /\ modelLoadAttempts >= maxLoadAttempts
    /\ undisturbed

\* C7: once maxLoadAttempts attempts have failed with a NetworkError, and until
\* initialize()/retryLoadModel() is called again, isLoaded stays false and no
\* retry timer starts a load attempt.
C7_RetryCeiling ==
    [][AtCeiling =>
          /\ sessionONNX' = NoSession
          /\ \A t \in Timers : ~(pc[t] = "pending" /\ pc'[t] \in AttemptPhases)]_vars

\* C8: loadAttempts never exceeds maxAttempts.
C8_AttemptsCapped == modelLoadAttempts <= maxLoadAttempts

\* C9: retryLoadModel() enters loadModel iff modelLoadAttempts < maxLoadAttempts;
\* otherwise it changes neither the session, isLoading, modelLoadAttempts nor the
\* cache file; either way it resolves to getModelStatus() as of its return.
C9_RetryFrame ==
    [][\A p \in Callers :
          /\ (pc[p] = "idle" /\ pc'[p] # "idle" /\ ret'[p] # Pending("initialize")) =>
                /\ (modelLoadAttempts < maxLoadAttempts)
                      <=> pc'[p] \in AttemptPhases \cup {"wait"}
                /\ (modelLoadAttempts >= maxLoadAttempts) =>
                      /\ UNCHANGED <<sessionONNX, isLoading, modelLoadAttempts, cacheFile>>
                      /\ pc'[p] = "returned"
          /\ (pc[p] # "returned" /\ pc'[p] = "returned"
                /\ ret[p] # Pending("initialize")) =>
                ret'[p] = getModelStatus(sessionONNX', modelLoadAttempts', isLoading',
                                         cacheFile', localFile')]_vars

\* a retryLoadModel() with no attempts left returned while the last attempt ran
C9_Witness ==
    \E p \in Callers :
        /\ pc[p] = "returned"
        /\ ret[p].kind = "status"
        /\ ret[p].isLoading
        /\ ret[p].loadAttempts = maxLoadAttempts

\* C10: an attempt downloads iff there is no cached artifact or building the
\* session from the cached artifact failed: an attempt that starts with a cache
\* file does not download, one that starts without it does, and a failed
\* session creation from the cache file is followed by a download.
C10_DownloadIffNoCacheOrCacheFailed ==
    [][\A p \in Procs :
          /\ (pc[p] \in {"idle", "pending"} /\ pc'[p] \in AttemptPhases) =>
                (pc'[p] = "request" <=> ~CacheHit)
          /\ (pc[p] = "cacheCreate" /\ pc'[p] # "cacheCreate"
                /\ ~CreateSucceeds(cacheFile)) =>
                pc'[p] = "request"]_vars

\* ---- properties of clearCache ------------------------------------------------

\* C11: a clearCache() call changes neither sessionONNX, isLoading,
\* modelLoadAttempts, the bundled file nor any call in progress; it resolves
\* (never rejects) to {success, message}, and when success is true the cache
\* file is gone; a predict() call that finds a session, also after the cache
\* was cleared, runs preprocessing and inference instead of taking the
\* no-session default.
C11_ClearCacheFrame ==
    /\ [][(clearResult = NoRet /\ clearResult' # NoRet) =>
            /\ UNCHANGED <<sessionONNX, isLoading, modelLoadAttempts>>
            /\ UNCHANGED <<localFile, pc, ret, waitedOn, errKind, predictState>>
            /\ clearResult'.kind = "cleared"
            /\ clearResult'.success \in BOOLEAN
            /\ clearResult'.message \in {"Cache cleared", "unlink failed"}
            /\ clearResult'.success => cacheFile' = "absent"
            /\ ~clearResult'.success => cacheFile' = cacheFile]_vars
    /\ [][(ppc = "idle" /\ ppc' # "idle" /\ sessionONNX # NoSession) =>
            ppc' = "preprocess"]_vars
    /\ []((ppc = "done" /\ ptrace = <<"preprocess", "validate", "infer">>) =>
            ~presult.usingDefaultPrediction)

\* the cache of a live session was cleared and predict still returned a real result
C11_Witness ==
    /\ clearCycle = "cleared"
    /\ cacheFile = "absent"
    /\ sessionONNX = "cache"
    /\ ppc = "done"
    /\ ~presult.usingDefaultPrediction

\* C12: when initialize() is called after clearCache() succeeded on a live
\* session, the load attempt it starts downloads (it does not load from the
\* cache), and that attempt does not end with the session from before the
\* clear still in place.
C12_ClearThenInitializeReloads ==
    /\ [][(clearCycle = "cleared" /\ clearCycle' = "reloading") =>
            \E p \in Callers : pc[p] = "idle" /\ pc'[p] = "request"]_vars
    /\ [](clearCycle = "reloading" => isLoading)

\* C13: while a session is live and clearCache() has not been called since it
\* was created, no load attempt starts (so no new session is created).
C13_SessionReplacedOnlyAfterClear ==
    [][(sessionONNX # NoSession /\ clearCycle = "none" /\ ~isLoading) =>
          /\ ~isLoading'
          /\ modelLoadAttempts' = modelLoadAttempts
          /\ sessionONNX' = sessionONNX]_vars

\* ---- properties of the two managers' interface -----------------------------------

\* C14: the two managers accept the same files in validateImageFile, and each
\* operation of the HuggingFaceModelManager returns a value with the fields the
\* ModelManager's operation returns: a status for initialize, retryLoadModel
\* and getModelStatus, {success, message} for clearCache.
C14_ManagersInterchangeable ==
    /\ verdict # NoRet =>
          (Accepted(verdict.local) <=> Accepted(verdict.remote))
    /\ (remote # NoRemote /\ remote.ret # NoRet) =>
          LET status == getModelStatus(sessionONNX, modelLoadAttempts, isLoading,
                                       cacheFile, localFile)
          IN IF remote.ret.op = "clearCache"
             THEN DOMAIN remote.ret.value = DOMAIN ClearCacheResult(TRUE, "Cache cleared")
             ELSE DOMAIN remote.ret.value = DOMAIN status

\* C15: the upload handlers call predict only for a file whose mimetype is
\* jpeg/png/gif/webp and whose size is within [1KB, 10MB].
C15_PredictOnlyValidated ==
    upload.stage = "predict" =>
        /\ upload.file.mimetype \in {"image/jpeg", "image/jpg", "image/png",
                                     "image/gif", "image/webp"}
        /\ upload.file.size >= 1024
        /\ upload.file.size <= 10485760

\* ---- properties of a failing load attempt -----------------------------------------

\* the step in which p's pending InferenceSession.create resolves with a session
Creates(p) ==
    \/ pc[p] \in {"cacheCreate", "dlCreate"} /\ CreateSucceeds(cacheFile)
    \/ pc[p] = "localCreate" /\ CreateSucceeds(localFile)

\* the step ends p's load attempt
AttemptEnds(p) == pc[p] \in AttemptPhases /\ pc'[p] \notin AttemptPhases

\* the retry timers the step schedules
NewlyPending == {t \in Timers : pc[t] # "pending" /\ pc'[t] = "pending"}

\* C16: the step in which a load attempt ends as failed clears isLoading,
\* schedules exactly one retry timer if modelLoadAttempts < maxLoadAttempts and
\* none otherwise, and in that same step the caller's initialize() /
\* retryLoadModel() resolves to the status, the timer still pending.
C16_FailureSchedulesOneRetry ==
    [][\A p \in Procs :
          (AttemptEnds(p) /\ ~Creates(p)) =>
             /\ ~isLoading'
             /\ Cardinality(NewlyPending) =
                   (IF modelLoadAttempts < maxLoadAttempts THEN 1 ELSE 0)
             /\ \A t \in NewlyPending : t[2] = modelLoadAttempts
             /\ \A q \in Procs : pc'[q] \in AttemptPhases => q = p
             /\ p \in Callers =>
                   /\ pc'[p] = "returned"
                   /\ ret'[p].kind = "status"
                   /\ ~ret'[p].isLoading]_vars

\* initialize() returned after its first, failed attempt; the retry is pending
C16_Witness ==
    \E p \in Callers :
        /\ pc[p] = "returned"
        /\ waitedOn[p] = 0
        /\ ret[p].kind = "status"
        /\ ~ret[p].isLoaded
        /\ ret[p].loadAttempts = 1
        /\ pc[<<"t", 1>>] = "pending"

\* the cache / download path of a load attempt
PrimaryPhases == AttemptPhases \ {"localCreate"}

\* C17: when the cache/download path of an attempt fails, the attempt goes on
\* to build a session from the bundled file if that file exists (isLoading
\* stays set, nothing is scheduled) and ends as failed only if it does not
\* exist; a fallback build that succeeds leaves the manager loaded from the
\* bundled file with isLoading false and no retry scheduled, one that fails
\* ends the attempt as failed.
C17_FallbackBeforeFailure ==
    [][\A p \in Procs :
          /\ (pc[p] \in PrimaryPhases /\ pc'[p] \notin PrimaryPhases /\ ~Creates(p)) =>
                IF localFile # "absent"
                THEN /\ pc'[p] = "localCreate"
                     /\ isLoading'
                     /\ NewlyPending = {}
                     /\ UNCHANGED <<sessionONNX, modelLoadAttempts>>
                ELSE /\ AttemptEnds(p)
                     /\ ~isLoading'
                     /\ sessionONNX' = sessionONNX
          /\ (pc[p] = "localCreate" /\ pc'[p] # "localCreate") =>
                /\ AttemptEnds(p)
                /\ ~isLoading'
                /\ IF CreateSucceeds(localFile)
                   THEN /\ sessionONNX' = "local"
                        /\ NewlyPending = {}
                   ELSE sessionONNX' = sessionONNX]_vars

\* the download failed and the bundled file gave the session
C17_Witness ==
    /\ sessionONNX = "local"
    /\ ~isLoading
    /\ modelLoadAttempts = 1
    /\ \A t \in Timers : pc[t] = "unset"
    /\ \E p \in Callers : pc[p] = "returned" /\ ret[p].isLoaded

\* ---- properties of downloadModel --------------------------------------------------

\* C18: downloadModel resolves only after the body of a 200 response, the
\* first one or the one the single redirect led to, was written; leaving the
\* download in any other way is a failure with a NetworkError.
C18_DownloadNeeds2xx ==
    [][\A p \in Procs :
          /\ (pc[p] \in DownloadPhases /\ pc'[p] = "dlCreate") =>
                pc[p] \in {"stream", "redirectStream"}
          /\ (pc[p] \in DownloadPhases /\ pc'[p] \notin DownloadPhases
                /\ pc'[p] # "dlCreate") =>
                \/ pc'[p] = "localCreate" /\ errKind'[p] = "NetworkError"
                \/ AttemptEnds(p) /\ ~isLoading']_vars

\* C19: every load attempt ends (isLoading, once set, is cleared again), and
\* every initialize() / retryLoadModel() call returns.
C19_AttemptsEnd ==
    /\ isLoading ~> ~isLoading
    /\ \A p \in Callers : (pc[p] # "idle") ~> (pc[p] = "idle")

\* ---- properties of modelSource ------------------------------------------------------

\* the tag of the artifact a session was built from
SourceTag(session) == IF session = "local" THEN "local" ELSE "huggingface_cached"

\* C20: the modelSource of a prediction that used the model, and of a status
\* that reports isLoaded, names the artifact the live session was built from
\* (so it is not 'none').
C20_ModelSourceIsSessionSource ==
    /\ (ppc = "done" /\ ~presult.usingDefaultPrediction) =>
          presult.modelSource = SourceTag(sessionONNX)
    /\ \A p \in Callers :
          (pc[p] = "returned" /\ ret[p].kind = "status" /\ ret[p].isLoaded) =>
             ret[p].modelSource = SourceTag(sessionONNX)

\* ---- properties of the pixel pipeline ----------------------------------------

\* C21: predict runs preprocessing, tensor validation and inference in this order,
\* and inference runs only on a tensor built from a decoded buffer of exactly
\* ImageHeight*ImageWidth*3 bytes (neither truncated nor padded: the tensor has as
\* many values as the buffer has bytes) whose values are all finite; a call whose
\* buffer has another length, or whose tensor holds a non-finite value, resolves
\* to the default without having run inference.
C21_StagesInOrder ==
    /\ ("infer" \in {pipeline.trace[k] : k \in 1..Len(pipeline.trace)}) =>
          /\ SubSeq(pipeline.trace, 1, 3) = <<"preprocess", "validate", "infer">>
          /\ Len(pipeline.buffer) = ImageHeight * ImageWidth * 3
          /\ Len(pipeline.tensor.data) = Len(pipeline.buffer)
          /\ \A k \in 1..Len(pipeline.tensor.data) : pipeline.tensor.data[k] # NaN
    /\ (pipeline.stage = "done" /\ ~pipeline.result.usingDefaultPrediction) =>
          pipeline.trace = <<"preprocess", "validate", "infer">>
    /\ (pipeline.stage = "done" /\ pipeline.buffer # <<>>
          /\ Len(pipeline.buffer) # ImageHeight * ImageWidth * 3) =>
          /\ pipeline.trace = <<"preprocess">>
          /\ pipeline.result.usingDefaultPrediction
          /\ pipeline.result.error = "PreprocessingError"

C21_Witness ==
    /\ pipeline.stage = "done"
    /\ pipeline.trace = <<"preprocess", "validate", "infer">>
    /\ ~pipeline.result.usingDefaultPrediction
    /\ Len(pipeline.buffer) = ImageHeight * ImageWidth * 3

\* C22: the tensor preprocessImage returns is the channel-planar re-layout of the
\* interleaved buffer: for every pixel i and channel c, slot c*H*W + i holds the
\* normalised value of byte 3*i + c; every slot was written exactly once; the
\* data has 3*H*W values and the declared shape is [1, 3, H, W].
C22_ChannelPlanarLayout ==
    pipeline.tensor # NoTensor =>
        /\ \A i \in 0..(ImageHeight * ImageWidth - 1) : \A c \in 0..2 :
              pipeline.tensor.data[c * ImageHeight * ImageWidth + i + 1]
                 = Normalize(pipeline.buffer[3 * i + c + 1], c)
        /\ \A k \in 1..Len(pipeline.tensor.writes) : pipeline.tensor.writes[k] = 1
        /\ Len(pipeline.tensor.data) = 3 * ImageHeight * ImageWidth
        /\ Len(pipeline.tensor.writes) = 3 * ImageHeight * ImageWidth
        /\ pipeline.tensor.dims = <<1, 3, ImageHeight, ImageWidth>>

\* a tensor built from a buffer whose bytes differ from pixel to pixel and from
\* channel to channel
C22_Witness ==
    /\ pipeline.stage = "infer"
    /\ pipeline.tensor # NoTensor
    /\ \A j, k \in 1..Len(pipeline.buffer) : j # k => pipeline.buffer[j] # pipeline.buffer[k]
    /\ pipeline.tensor.data[ImageHeight * ImageWidth + 1] = Normalize(pipeline.buffer[2], 1)
    /\ pipeline.tensor.data[2] # pipeline.tensor.data[ImageHeight * ImageWidth + 1]

\* ---- properties of the remote variant's predict --------------------------------

\* C23: the remote predict tries direct hosted inference first; the proxy classifier
\* is started only after the direct approach ended without a usable result (a
\* non-OK status, 503 included, or an exception); the weighted-random fallback is
\* returned only when the manager was not available (no token, or not loaded) or
\* when both approaches failed, and then usingDefaultPrediction is true and the
\* confidence lies in the fallback's range (0.75-0.90 resp. 0.70-0.85).
C23_SourcesInOrder ==
    /\ [](hfcall.trace \in {<<>>, <<"direct">>, <<"direct", "proxy">>})
    /\ [](hfcall.stage = "proxy" =>
            /\ hfcall.trace = <<"direct", "proxy">>
            /\ hfcall.direct \in {"notOk", "warmingUp", "threw"})
    /\ [](hfcall.stage = "done" =>
            /\ hfcall.result.modelSource = "huggingface_inference" =>
                  /\ hfcall.trace = <<"direct">>
                  /\ hfcall.direct = "usable"
            /\ hfcall.result.modelSource = "proxy_analysis" =>
                  /\ hfcall.trace = <<"direct", "proxy">>
                  /\ hfcall.direct \in {"notOk", "warmingUp", "threw"}
                  /\ hfcall.proxy = "usable"
            /\ hfcall.result.usingDefaultPrediction <=>
                  hfcall.result.modelSource \in {"intelligent_fallback", "error_fallback"}
            /\ hfcall.result.modelSource = "error_fallback" =>
                  /\ hfcall.trace = <<"direct", "proxy">>
                  /\ hfcall.direct \in {"notOk", "warmingUp", "threw"}
                  /\ hfcall.proxy \in {"notOk", "threw"}
                  /\ hfcall.result.confidence >= 700000
                  /\ hfcall.result.confidence <= 850000
            /\ hfcall.result.modelSource = "intelligent_fallback" =>
                  /\ hfcall.trace = <<>>
                  /\ hfcall.result.confidence >= 750000
                  /\ hfcall.result.confidence <= 900000)
    /\ [][(hfcall.stage = "idle" /\ hfcall'.stage # "idle") =>
            IF remote.isLoaded /\ remote.hasToken
            THEN hfcall'.stage = "direct"
            ELSE /\ hfcall'.stage = "done"
                 /\ hfcall'.result.modelSource = "intelligent_fallback"]_vars

\* both approaches failed: the hosted model is warming up, the proxy answers non-OK
C23_Witness ==
    /\ hfcall.stage = "done"
    /\ hfcall.direct = "warmingUp"
    /\ hfcall.proxy = "notOk"
    /\ hfcall.result.modelSource = "error_fallback"
    /\ hfcall.result.usingDefaultPrediction

\* the result came from processInferenceResult applied to an array whose top item
\* carries a label text and a score
FromTopItem ==
    /\ hfcall.stage = "done"
    /\ hfcall.result.modelSource = "huggingface_inference"
    /\ hfcall.input.kind = "array"
    /\ Len(hfcall.input.items) > 0
    /\ hfcall.input.items[1].label \notin {NoLabel, <<>>}
    /\ hfcall.input.items[1].score # Undefined

\* C24: processInferenceResult classifies the top label/score pair by substring
\* match on the lower-cased label: a label containing "anemic", "anemia",
\* "positive" or "sick" gives Anemic, any other label Non-anemic, and the
\* confidence is the score rounded to two decimals.
C24_SubstringClassification ==
    FromTopItem =>
        LET label == labelToLowerCase(hfcall.input.items[1].label)
            score == hfcall.input.items[1].score
        IN /\ hfcall.result.prediction =
                 (IF \/ includes(label, <<"a", "n", "e", "m", "i", "c">>)
                     \/ includes(label, <<"a", "n", "e", "m", "i", "a">>)
                     \/ includes(label, <<"p", "o", "s", "i", "t", "i", "v", "e">>)
                     \/ includes(label, <<"s", "i", "c", "k">>)
                  THEN "Anemic" ELSE "Non-anemic")
           /\ hfcall.result.confidence = ((score + 5000) \div 10000) * 10000

\* C30: a hosted-inference top label that names the non-anemic class ("Non-anemic",
\* "non_anemic") is mapped to Non-anemic, and one that names the anemic class to
\* Anemic.
C30_ClassNamesMapToThemselves ==
    (FromTopItem /\ hfcall.input.items[1].score # 0) =>
        /\ hfcall.input.items[1].label \in {LabelNonAnemic, LabelNonAnemicSnake} =>
              hfcall.result.prediction = "Non-anemic"
        /\ hfcall.input.items[1].label = LabelAnemic =>
              hfcall.result.prediction = "Anemic"

\* C26: the remote predict always resolves, with a prediction in {Anemic,
\* Non-anemic} and a confidence within [0, 1]; a result of the proxy path has a
\* confidence within [0.6, 0.9] and is Anemic exactly when the aggregated anemia
\* score exceeds 0.55.
C26_RemoteResultInRange ==
    hfcall.stage = "done" =>
        /\ hfcall.result.outcome = "resolved"
        /\ hfcall.result.prediction \in {"Anemic", "Non-anemic"}
        /\ hfcall.result.confidence >= 0
        /\ hfcall.result.confidence <= 1000000
        /\ hfcall.result.modelSource = "proxy_analysis" =>
              LET score == IF hfcall.input.kind = "array"
                           THEN anemiaScore(hfcall.input.items, 1, 500000) ELSE 500000
              IN /\ hfcall.result.confidence >= 600000
                 /\ hfcall.result.confidence <= 900000
                 /\ (hfcall.result.prediction = "Anemic") <=> (score # NaN /\ score > 550000)

\* ---- properties of the cache file ------------------------------------------------

\* a transfer of an earlier download is still running into its write stream
EarlierWriter(p) ==
    \/ orphan.phase # "none"
    \/ \E q \in Procs \ {p} : pc[q] \in DownloadPhases

\* C25: at most one writer of the cache path at a time: a download opens its write
\* stream (line 126) only when no transfer of an earlier download is still running,
\* a transfer whose promise the timeout rejected included.
C25_SingleWriter ==
    [][\A p \in Procs : (pc[p] # "request" /\ pc'[p] = "request") => ~EarlierWriter(p)]_vars

\* ---- monotonicity of the load state ----------------------------------------------

\* C27: once a session is loaded it is never set back to null, whatever follows (a
\* failed attempt, clearCache(), retryLoadModel(), a retry timer): every status
\* returned from then on says isLoaded, and predict no longer takes the
\* no-session default.
C27_IsLoadedMonotonic ==
    /\ [][sessionONNX # NoSession => sessionONNX' # NoSession]_vars
    /\ [](sessionONNX # NoSession =>
            \A p \in Callers : pc[p] = "returned" => ret[p].isLoaded)
    /\ [][(sessionONNX # NoSession /\ ppc = "idle" /\ ppc' # "idle") =>
            ppc' = "preprocess"]_vars

\* a later attempt failed for good while a session was loaded, and predict ran
C27_Witness ==
    /\ sessionONNX # NoSession
    /\ modelLoadAttempts >= 2
    /\ cacheFile = "absent"
    /\ \E t \in Timers : pc[t] = "pending"
    /\ ppc = "infer"

\* process p passes the isLoading guard of loadModel and starts an attempt
StartsAttempt(p) ==
    /\ pc[p] \in {"idle", "pending"}
    /\ pc'[p] \in {"cacheCreate", "request"}

\* C28: modelLoadAttempts never decreases and is never reset; it grows by exactly
\* one when a load attempt passes the isLoading guard, and by nothing else; so once
\* maxLoadAttempts attempts were started, retryLoadModel() starts nothing ever again.
C28_AttemptsMonotonic ==
    /\ [][modelLoadAttempts' \in {modelLoadAttempts, modelLoadAttempts + 1}]_vars
    /\ [][(modelLoadAttempts' = modelLoadAttempts + 1)
             <=> (\E p \in Procs : StartsAttempt(p))]_vars
    /\ [][modelLoadAttempts >= maxLoadAttempts =>
             /\ modelLoadAttempts' >= maxLoadAttempts
             /\ \A p \in Callers :
                   (pc[p] = "idle" /\ pc'[p] # "idle") =>
                      /\ pc'[p] = "returned"
                      /\ UNCHANGED <<sessionONNX, isLoading, modelLoadAttempts, cacheFile>>]_vars

\* retryLoadModel() was called with no attempts left, after a successful attempt
C28_Witness ==
    /\ modelLoadAttempts >= maxLoadAttempts
    /\ sessionONNX # NoSession
    /\ ~isLoading
    /\ \E p \in Callers : pc[p] = "returned" /\ ret[p].loadAttempts = modelLoadAttempts

\* the download of process p fails in this step: it leaves the download without
\* having finished the file, and not for the state where it can no longer settle
DownloadFails(p) ==
    /\ pc[p] \in DownloadPhases
    /\ pc'[p] \notin DownloadPhases \cup {"dlCreate", "hung"}

\* C29: a download that fails (a status that is neither 2xx nor 3xx, a transport
\* error, the timeout) leaves no file at the cache path, and a retry timer that
\* fires after nothing but NetworkErrors starts the remote download again
\* instead of taking a leftover file for a cache hit.
C29_FailedDownloadLeavesNoFile ==
    /\ [][\A p \in Procs : DownloadFails(p) => cacheFile' = "absent"]_vars
    /\ [][\A t \in Timers :
             (undisturbed /\ sessionONNX = NoSession /\ pc[t] = "pending"
                 /\ pc'[t] \in AttemptPhases) => pc'[t] = "request"]_vars

====
